---- MODULE Spec2Model ----
(***************************************************************************)
(* A model of graphdsl.py: the Edge / FSMShape / Diagram / FSM / Digraph   *)
(* classes, their constructors' validation, the FSM and Digraph text       *)
(* producers and the two file sinks (output_tex and the >> operator).      *)
(*                                                                         *)
(* Representation.                                                         *)
(*   - a raw edge is a tuple <<src, dst>> or <<src, dst, label>> (any      *)
(*     other length is a malformed edge); a normalised Edge is always a    *)
(*     3-tuple; Python's None is the value None.                           *)
(*   - a text is a sequence of lines, one record per line of the string    *)
(*     the code builds; the empty string is the empty sequence.            *)
(*   - a formatted number is a record [fmt, neg, mag]: fmt "d" is an       *)
(*     integer printed with {x} (mag in bp), fmt "f2" is a float printed   *)
(*     with {:0.2f} (mag in hundredths of a bp, neg the printed sign, so   *)
(*     that "-0.00" is distinct from "0.00").                              *)
(*   - a path is a sequence of one-character strings.                      *)
(*   - iteration over a Python set has an unspecified order: an action     *)
(*     that iterates a set takes the order as a nondeterministic input.    *)
(***************************************************************************)
EXTENDS Integers, Sequences, FiniteSets

VARIABLES input, diagram, shape, call, exc, ret, fs

vars == <<input, diagram, shape, call, exc, ret, fs>>

----------------------------------------------------------------------------
(* Bounds of the model.                                                    *)

MaxLabels == 2

MaxEdges == 2

MaxCols == 2

----------------------------------------------------------------------------
(* Values.                                                                 *)

None == "<None>"

NoDiagram == [cls |-> "none"]

NoneShape == [cls |-> "NoneType"]

NoException == "none"

NoValue == <<"<no value>">>

(* The i-th state label of the inputs: q0, q1, ...                         *)
LabelNames == <<"q0", "q1", "q2", "q3", "q4", "q5">>

Labels(n) == SubSeq(LabelNames, 1, n)

(* All subsets of S with at most k elements.                               *)
RECURSIVE SubsetsUpTo(_, _)
SubsetsUpTo(S, k) ==
    IF k = 0 THEN {{}}
    ELSE LET P == SubsetsUpTo(S, k - 1)
         IN  P \cup {p \cup {x} : p \in P, x \in S}

(* All orders in which the elements of S can be iterated.                  *)
RECURSIVE Orders(_)
Orders(S) ==
    IF S = {} THEN {<<>>}
    ELSE UNION {{<<x>> \o o : o \in Orders(S \ {x})} : x \in S}

----------------------------------------------------------------------------
(* class Edge(NamedTuple)                                                  *)

Edge(src, dst, label) == <<src, dst, label>>

(* class FSMCircle: the constructor's check.                               *)
FSMCircle_post_init(radius) ==
    IF radius < 0 THEN "ValueError" ELSE NoException

FSMCircle(radius) == [cls |-> "FSMCircle", radius |-> radius]

(* class FSMRect: the constructor's checks.                                *)
FSMRect_post_init(cols, spacing) ==
    IF cols < 1 THEN "ValueError"
    ELSE IF spacing < 1 THEN "ValueError"
    ELSE NoException

FSMRect(cols, spacing) == [cls |-> "FSMRect", cols |-> cols, spacing |-> spacing]

(* An instance of the base class FSMShape, which is neither layout.        *)
FSMShapeBase == [cls |-> "FSMShape"]

----------------------------------------------------------------------------
(* Diagram.__post_init__: convert the provided edges into Edges.           *)

Diagram_post_init_exc(edges) ==
    IF \E e \in edges : Len(e) # 2 /\ Len(e) # 3
    THEN "ValueError" ELSE NoException

Diagram_post_init_edges(edges) ==
    {IF Len(e) = 2 THEN Edge(e[1], e[2], None) ELSE Edge(e[1], e[2], e[3]) : e \in edges}

(* FSM.__post_init__: check that all references to states are valid.       *)
(* The message of the edge check formats the local q, which is bound only  *)
(* by an iteration of the accept-state loop.                               *)
FSM_post_init(edges, state_labels, q_0, q_accept) ==
    LET num_nodes == Len(state_labels)
        new_edges == Diagram_post_init_edges(edges)
    IN  IF Diagram_post_init_exc(edges) # NoException THEN "ValueError"
        ELSE IF q_0 >= num_nodes THEN "ValueError"
        ELSE IF \E q \in q_accept : q >= num_nodes THEN "ValueError"
        ELSE IF \E e \in new_edges : e[1] >= num_nodes \/ e[2] >= num_nodes
             THEN IF q_accept = {} THEN "UnboundLocalError" ELSE "ValueError"
        ELSE NoException

FSM(edges, state_labels, q_0, q_accept) ==
    [cls |-> "FSM", edges |-> Diagram_post_init_edges(edges),
     state_labels |-> state_labels, q_0 |-> q_0, q_accept |-> q_accept]

Digraph(edges) ==
    [cls |-> "Digraph", edges |-> Diagram_post_init_edges(edges)]

----------------------------------------------------------------------------
(* Number formatting.                                                      *)

(* "{x}" of an integer x.                                                  *)
FmtD(n) == [fmt |-> "d", neg |-> n < 0, mag |-> IF n < 0 THEN -n ELSE n]

(* "{:0.2f}" of an integer n.                                              *)
Fmt2fInt(n) == [fmt |-> "f2", neg |-> n < 0, mag |-> 100 * (IF n < 0 THEN -n ELSE n)]

(* numpy sin and cos of i * 2 * pi / n for n in 1..6, as <<v, e>>: v is    *)
(* the value in millionths; e is the sign of the floating-point error      *)
(* where the exact value is 0, +-1/2 or +-1 (sin(pi) is 1.2e-16, not 0).   *)
SinTable ==
  <<
    <<<<0, 0>>>>,
    <<<<0, 0>>, <<0, 1>>>>,
    <<<<0, 0>>, <<866025, 0>>, <<-866025, 0>>>>,
    <<<<0, 0>>, <<1000000, 0>>, <<0, 1>>, <<-1000000, 0>>>>,
    <<<<0, 0>>, <<951057, 0>>, <<587785, 0>>, <<-587785, 0>>, <<-951057, 0>>>>,
    <<<<0, 0>>, <<866025, 0>>, <<866025, 0>>, <<0, 1>>, <<-866025, 0>>, <<-866025, 0>>>>
  >>

CosTable ==
  <<
    <<<<1000000, 0>>>>,
    <<<<1000000, 0>>, <<-1000000, 0>>>>,
    <<<<1000000, 0>>, <<-500000, 1>>, <<-500000, -1>>>>,
    <<<<1000000, 0>>, <<0, 1>>, <<-1000000, 0>>, <<0, -1>>>>,
    <<<<1000000, 0>>, <<309017, 0>>, <<-809017, 0>>, <<-809017, 0>>, <<309017, 0>>>>,
    <<<<1000000, 0>>, <<500000, 1>>, <<-500000, 1>>, <<-1000000, 0>>, <<-500000, -1>>, <<500000, 1>>>>
  >>

(* "{:0.2f}" of the float radius * t + add, t an entry of a table above.   *)
Fmt2f(t, radius, add) ==
    LET total == radius * t[1] + add * 1000000
        abs == IF total < 0 THEN -total ELSE total
    IN  [fmt |-> "f2",
         neg |-> total < 0 \/ (total = 0 /\ t[2] < 0),
         mag |-> (abs + 5000) \div 10000]

----------------------------------------------------------------------------
(* FSM.to_tex                                                              *)

Options(d, i) == IF i \in d.q_accept THEN "draw,circle,double" ELSE "draw,circle"

NodeLine(i, x, y, options, label) ==
    [t |-> "node", id |-> i, x |-> x, y |-> y, options |-> options, label |-> label]

StartLines(i, x, y) ==
    << [t |-> "start", x |-> x, y |-> y], [t |-> "startedge", dst |-> i] >>

(* The lines of node i in the FSMCircle branch.                            *)
CircleNode(d, sh, i) ==
    LET num_nodes == Len(d.state_labels)
        radius == IF sh.radius # 0 THEN sh.radius ELSE 10 * num_nodes
        x_rounded == Fmt2f(SinTable[num_nodes][i + 1], radius, 0)
        y_rounded == Fmt2f(CosTable[num_nodes][i + 1], radius, 0)
        start_y_rounded == Fmt2f(CosTable[num_nodes][i + 1], radius, radius \div 2)
    IN  <<NodeLine(i, x_rounded, y_rounded, Options(d, i), d.state_labels[i + 1])>>
        \o (IF i = d.q_0 THEN StartLines(i, x_rounded, start_y_rounded) ELSE <<>>)

(* A grid that fills columns first: the column and the row exchanged.      *)
RectXColumnMajor(i, cols, spacing) == (i \div cols) * spacing

(* The position of node i in the FSMRect branch.                           *)
RectX(i, cols, spacing) == (i % cols) * spacing

RectY(i, cols, spacing) == -((i \div cols) * spacing)

(* The lines of node i in the FSMRect branch.                              *)
RectNode(d, sh, i) ==
    LET x == RectX(i, sh.cols, sh.spacing)
        y == RectY(i, sh.cols, sh.spacing)
        start_y_rounded == Fmt2fInt(y + sh.spacing \div 2)
    IN  <<NodeLine(i, FmtD(x), FmtD(y), Options(d, i), d.state_labels[i + 1])>>
        \o (IF i = d.q_0 THEN StartLines(i, FmtD(x), start_y_rounded) ELSE <<>>)

(* The node loop: enumerate(self.state_labels), from index i on.           *)
RECURSIVE NodeLines(_, _, _)
NodeLines(d, sh, i) ==
    IF i >= Len(d.state_labels) THEN <<>>
    ELSE (IF sh.cls = "FSMCircle" THEN CircleNode(d, sh, i) ELSE RectNode(d, sh, i))
         \o NodeLines(d, sh, i + 1)

(* A renderer without the self-loop case: every edge a straight line.      *)
EdgeLineAlwaysStraight(e) ==
    [t |-> "straight", src |-> e[1], dst |-> e[2],
     label |-> IF e[3] = None THEN "" ELSE e[3]]

(* The connector of one edge.                                              *)
EdgeLine(e) ==
    LET src == e[1]
        dst == e[2]
        label == IF e[3] = None THEN "" ELSE e[3]
    IN  IF src # dst
        THEN [t |-> "straight", src |-> src, dst |-> dst, label |-> label]
        ELSE [t |-> "loop", src |-> src, label |-> label]

(* The edge loop, over the edges in the order the set yields them.         *)
EdgeLines(order) == [k \in 1 .. Len(order) |-> EdgeLine(order[k])]

FSM_to_tex_exc(d, sh) ==
    IF sh.cls \in {"FSMCircle", "FSMRect"} THEN NoException ELSE "NotImplementedError"

FSM_to_tex(d, sh, order) ==
    << [t |-> "TEX_PREAMBLE"], [t |-> "begin{tikzpicture}"] >>
    \o NodeLines(d, sh, 0)
    \o EdgeLines(order)
    \o << [t |-> "end{tikzpicture}"], [t |-> "TEX_POSTSCRIPT"] >>

----------------------------------------------------------------------------
(* Digraph.edge_to_dot, Digraph.to_dot, Digraph.to_tex                     *)

(* str(x) of a label: None prints as the text None.                        *)
PyStr(x) == IF x = None THEN "None" ELSE x

(* The text of one edge: attr is <<>> when no label clause is appended and *)
(* <<text>> when ' [label="text"]' is.                                     *)
Digraph_edge_to_dot(edge) ==
    [t |-> "edge", src |-> edge[1], dst |-> edge[2],
     attr |-> IF Len(edge) = 3 THEN <<PyStr(edge[3])>> ELSE <<>>]

Digraph_to_dot(d, order) ==
    IF d.edges = {} THEN <<>>
    ELSE << [t |-> "digraph {"], [t |-> "node [texmode=math]"] >>
         \o [k \in 1 .. Len(order) |-> Digraph_edge_to_dot(order[k])]
         \o << [t |-> "}"] >>

(* d2t.dot2tex, the external converter: its output is opaque, and it may   *)
(* fail.                                                                   *)
dot2tex(dot) == << [t |-> "dot2tex", dot |-> dot] >>

Digraph_to_tex_exc(sh, backend_ok) ==
    IF sh.cls # "NoneType" THEN "ValueError"
    ELSE IF ~backend_ok THEN "Dot2texError"
    ELSE NoException

Digraph_to_tex(d, order) == dot2tex(Digraph_to_dot(d, order))

----------------------------------------------------------------------------
(* Method lookup on a diagram object.                                      *)

hasattr(d, name) ==
    \/ name = "to_tex"
    \/ name = "to_dot" /\ d.cls = "Digraph"

(* self.to_tex(shape): the exception raised, and the value returned.       *)
to_tex_exc(d, sh, backend_ok) ==
    IF d.cls = "FSM" THEN FSM_to_tex_exc(d, sh) ELSE Digraph_to_tex_exc(sh, backend_ok)

to_tex(d, sh, order) ==
    IF d.cls = "FSM" THEN FSM_to_tex(d, sh, order) ELSE Digraph_to_tex(d, order)

(* self.to_dot()                                                           *)
to_dot_exc(d) == IF hasattr(d, "to_dot") THEN NoException ELSE "AttributeError"

to_dot(d, order) == Digraph_to_dot(d, order)

----------------------------------------------------------------------------
(* Paths and files.                                                        *)

UpperCase == <<"A","B","C","D","E","F","G","H","I","J","K","L","M",
               "N","O","P","Q","R","S","T","U","V","W","X","Y","Z">>

LowerCase == <<"a","b","c","d","e","f","g","h","i","j","k","l","m",
               "n","o","p","q","r","s","t","u","v","w","x","y","z">>

(* str.lower                                                               *)
lower(s) ==
    [k \in 1 .. Len(s) |->
        IF \E j \in 1 .. 26 : UpperCase[j] = s[k]
        THEN LowerCase[CHOOSE j \in 1 .. 26 : UpperCase[j] = s[k]]
        ELSE s[k]]

(* str.endswith                                                            *)
endswith(s, suffix) ==
    /\ Len(suffix) <= Len(s)
    /\ SubSeq(s, Len(s) - Len(suffix) + 1, Len(s)) = suffix

DotTex == <<".", "t", "e", "x">>

DotDot == <<".", "d", "o", "t">>

DotGv == <<".", "g", "v">>

NoFile == [exists |-> FALSE, data |-> <<>>]

(* open(path, "w"): the file is created, or truncated if it exists.        *)
open_w(files, path) == [files EXCEPT ![path] = [exists |-> TRUE, data |-> <<>>]]

(* f.write(text) on a file just opened for writing.                        *)
write(files, path, text) == [files EXCEPT ![path] = [exists |-> TRUE, data |-> text]]

(* Which producer the >> operator selects for the lower-cased path.        *)
rshift_branch(d, other) ==
    IF endswith(other, DotTex) /\ hasattr(d, "to_tex") THEN "to_tex"
    ELSE IF endswith(other, DotDot) \/ (endswith(other, DotGv) /\ hasattr(d, "to_dot"))
         THEN "to_dot"
    ELSE "raise"

(* The exception of diagram >> path.                                       *)
rshift_exc(d, path, backend_ok) ==
    LET other == lower(path)
        branch == rshift_branch(d, other)
    IN  IF branch = "to_tex" THEN to_tex_exc(d, NoneShape, backend_ok)
        ELSE IF branch = "to_dot" THEN to_dot_exc(d)
        ELSE "NotImplementedError"

(* The files after diagram >> path.                                        *)
rshift_files(files, d, path, order, backend_ok) ==
    LET other == lower(path)
        branch == rshift_branch(d, other)
        opened == open_w(files, other)
    IN  IF rshift_exc(d, path, backend_ok) # NoException THEN opened
        ELSE IF branch = "to_tex" THEN write(opened, other, to_tex(d, NoneShape, order))
        ELSE write(opened, other, to_dot(d, order))

(* The path output_tex opens.                                              *)
output_tex_path(filename) == filename \o DotTex

(* The files after diagram.output_tex(filename, preview, shape); the       *)
(* preview runs external programs and leaves the .tex file alone.          *)
output_tex_files(files, d, filename, sh, order, backend_ok) ==
    LET path == output_tex_path(filename)
        opened == open_w(files, path)
    IN  IF to_tex_exc(d, sh, backend_ok) # NoException THEN opened
        ELSE write(opened, path, to_tex(d, sh, order))

----------------------------------------------------------------------------
(* Inputs of the FSM constructor and of the shape constructors.            *)

StateRefs == -1 .. MaxLabels

AcceptRefs == {0, MaxLabels}

EdgeEnds == {0, 1}

EdgeLabels == {"", "a"}

(* Edges between the first two states, without a label and with one, two   *)
(* edges that name a state beyond the last label, and a malformed edge.    *)
RawEdges ==
    {<<s, d>> : s \in EdgeEnds, d \in EdgeEnds}
    \cup {<<s, d, l>> : s \in EdgeEnds, d \in EdgeEnds, l \in EdgeLabels}
    \cup {<<0, MaxLabels>>, <<MaxLabels, 0, "a">>}

MalformedEdges == {<<0, 0, "a", "a">>}

FSMInputs ==
    [edges : SubsetsUpTo(RawEdges \cup MalformedEdges, MaxEdges),
     state_labels : {Labels(n) : n \in 0 .. MaxLabels},
     q_0 : StateRefs,
     q_accept : SubsetsUpTo(AcceptRefs, 1)]

Radii == {-1, 0, 7}

Spacings == {0, 3}

(* Inputs of the Digraph constructor.                                      *)
DigraphRawEdges ==
    {<<"x", "y">>, <<"x", "y", None>>, <<"x", "y", "a">>, <<"y", "y", "b">>, <<"x">>}

DigraphInputs == SubsetsUpTo(DigraphRawEdges, MaxEdges)

(* Inputs of the sinks.                                                    *)
SinkFSMInputs ==
    {[edges |-> {<<0, 0, "a">>}, state_labels |-> Labels(1), q_0 |-> 0, q_accept |-> {}]}

SinkDigraphInputs == {{}, {<<"x", "y", "a">>}}

RshiftPaths ==
    { <<"g", ".", "d", "o", "t">>, <<"G", ".", "D", "o", "t">>, <<"g", ".", "g", "v">>,
      <<"p", ".", "p", "n", "g">>, <<"o", ".", "t", "e", "x">>, <<"t", "e", "x">> }

TexNames == { <<"O">> }

Files == RshiftPaths \cup {lower(p) : p \in RshiftPaths} \cup {output_tex_path(n) : n \in TexNames}

----------------------------------------------------------------------------
(* Operations.  input holds the arguments the client passes to FSM(...).   *)

NewFSM ==
    LET a == input
        e == FSM_post_init(a.edges, a.state_labels, a.q_0, a.q_accept)
    IN  /\ call' = [op |-> "FSM"]
        /\ exc' = e
        /\ diagram' = IF e = NoException
                      THEN FSM(a.edges, a.state_labels, a.q_0, a.q_accept)
                      ELSE NoDiagram
        /\ ret' = NoValue
        /\ UNCHANGED <<input, shape, fs>>

NewDigraph(inputs) ==
    \E edges \in inputs :
        LET e == Diagram_post_init_exc(edges)
        IN  /\ call' = [op |-> "Digraph", edges |-> edges]
            /\ exc' = e
            /\ diagram' = IF e = NoException THEN Digraph(edges) ELSE NoDiagram
            /\ ret' = NoValue
            /\ UNCHANGED <<input, shape, fs>>

NewFSMCircle ==
    \E radius \in Radii :
        LET e == FSMCircle_post_init(radius)
        IN  /\ call' = [op |-> "FSMCircle"]
            /\ exc' = e
            /\ shape' = IF e = NoException THEN FSMCircle(radius) ELSE NoneShape
            /\ ret' = NoValue
            /\ UNCHANGED <<input, diagram, fs>>

NewFSMRect ==
    \E cols \in 0 .. MaxCols, spacing \in Spacings :
        LET e == FSMRect_post_init(cols, spacing)
        IN  /\ call' = [op |-> "FSMRect"]
            /\ exc' = e
            /\ shape' = IF e = NoException THEN FSMRect(cols, spacing) ELSE NoneShape
            /\ ret' = NoValue
            /\ UNCHANGED <<input, diagram, fs>>

NewFSMShape ==
    /\ call' = [op |-> "FSMShape"]
    /\ exc' = NoException
    /\ shape' = FSMShapeBase
    /\ ret' = NoValue
    /\ UNCHANGED <<input, diagram, fs>>

(* diagram.to_tex(shape)                                                   *)
ToTex ==
    /\ diagram.cls # "none"
    /\ \E order \in Orders(diagram.edges), backend_ok \in BOOLEAN :
        LET e == to_tex_exc(diagram, shape, backend_ok)
        IN  /\ call' = [op |-> "to_tex", shape |-> shape]
            /\ exc' = e
            /\ ret' = IF e = NoException THEN to_tex(diagram, shape, order) ELSE NoValue
    /\ UNCHANGED <<input, diagram, shape, fs>>

(* diagram.to_dot()                                                        *)
ToDot ==
    /\ diagram.cls # "none"
    /\ \E order \in Orders(diagram.edges) :
        LET e == to_dot_exc(diagram)
        IN  /\ call' = [op |-> "to_dot"]
            /\ exc' = e
            /\ ret' = IF e = NoException THEN to_dot(diagram, order) ELSE NoValue
    /\ UNCHANGED <<input, diagram, shape, fs>>

(* diagram.output_tex(filename, preview, shape)                            *)
OutputTex ==
    /\ diagram.cls # "none"
    /\ \E filename \in TexNames, preview \in BOOLEAN,
          order \in Orders(diagram.edges), backend_ok \in BOOLEAN :
        /\ call' = [op |-> "output_tex", filename |-> filename, preview |-> preview,
                    shape |-> shape]
        /\ exc' = to_tex_exc(diagram, shape, backend_ok)
        /\ fs' = output_tex_files(fs, diagram, filename, shape, order, backend_ok)
        /\ ret' = NoValue
    /\ UNCHANGED <<input, diagram, shape>>

(* diagram >> path                                                         *)
Rshift ==
    /\ diagram.cls # "none"
    /\ \E path \in RshiftPaths, order \in Orders(diagram.edges), backend_ok \in BOOLEAN :
        /\ call' = [op |-> ">>", path |-> path]
        /\ exc' = rshift_exc(diagram, path, backend_ok)
        /\ fs' = rshift_files(fs, diagram, path, order, backend_ok)
        /\ ret' = NoValue
    /\ UNCHANGED <<input, diagram, shape>>

InitRest ==
    /\ diagram = NoDiagram
    /\ shape = NoneShape
    /\ call = [op |-> "none"]
    /\ exc = NoException
    /\ ret = NoValue
    /\ fs = [p \in Files |-> NoFile]

(* FSM construction, layout shapes and rendering.                          *)
Init == input \in FSMInputs /\ InitRest

Next == NewFSM \/ NewFSMCircle \/ NewFSMRect \/ NewFSMShape \/ ToTex

Spec == Init /\ [][Next]_vars

(* Digraph construction and export.                                        *)
InitDigraph == input \in SinkFSMInputs /\ InitRest

NextDigraph ==
    \/ NewDigraph(DigraphInputs)
    \/ NewFSMCircle
    \/ NewFSMRect
    \/ NewFSMShape
    \/ ToDot
    \/ ToTex

SpecDigraph == InitDigraph /\ [][NextDigraph]_vars

(* The file sinks.                                                         *)
InitSink == input \in SinkFSMInputs /\ InitRest

NextSink ==
    \/ NewFSM
    \/ NewDigraph(SinkDigraphInputs)
    \/ NewFSMRect
    \/ OutputTex
    \/ Rshift

SpecSink == InitSink /\ [][NextSink]_vars

----------------------------------------------------------------------------
(* Properties of FSM construction (specification Spec).                    *)

NumNodes == Len(input.state_labels)

WellFormedEdges == \A e \in input.edges : Len(e) = 2 \/ Len(e) = 3

AllInRange ==
    /\ input.q_0 < NumNodes
    /\ \A q \in input.q_accept : q < NumNodes
    /\ \A e \in input.edges : e[1] < NumNodes /\ e[2] < NumNodes

(* C1: for edges of arity 2 or 3, constructing the FSM succeeds iff the    *)
(* start state, every accept state and every edge endpoint is below the    *)
(* number of labels, and fails with ValueError, and no other error,        *)
(* otherwise.                                                              *)
C1_ValidationTotality ==
    (call.op = "FSM" /\ WellFormedEdges) =>
        /\ AllInRange => exc = NoException
        /\ ~AllInRange => exc = "ValueError"

(* C2: every constructed FSM has 0 <= q_0 < len(state_labels), and every   *)
(* accept state and edge endpoint below len(state_labels); so it has at    *)
(* least one label.                                                        *)
C2_DataModelInvariant ==
    diagram.cls = "FSM" =>
        LET n == Len(diagram.state_labels)
        IN  /\ 0 <= diagram.q_0 /\ diagram.q_0 < n
            /\ \A q \in diagram.q_accept : q < n
            /\ \A e \in diagram.edges : e[1] < n /\ e[2] < n
            /\ n > 0

----------------------------------------------------------------------------
(* Properties of FSM rendering (specification Spec).                       *)

Rendered == call.op = "to_tex" /\ diagram.cls = "FSM" /\ exc = NoException

LinesOf(text, kind) == {k \in DOMAIN text : text[k].t = kind}

(* C6: rendering an FSM with zero state labels with an FSMCircle fails     *)
(* with ValueError and returns no markup.                                  *)
C6_CircularZeroNodesRejected ==
    (/\ call.op = "to_tex"
     /\ diagram.cls = "FSM"
     /\ call.shape.cls = "FSMCircle"
     /\ Len(diagram.state_labels) = 0)
    => (exc = "ValueError" /\ ret = NoValue)

(* C7: the markup of a constructed FSM under FSMCircle or FSMRect has the  *)
(* start marker node and its edge exactly once, right after the node whose *)
(* index is q_0.                                                           *)
C7_StartMarkerExactlyOnce ==
    Rendered =>
        /\ Cardinality(LinesOf(ret, "start")) = 1
        /\ Cardinality(LinesOf(ret, "startedge")) = 1
        /\ \A k \in LinesOf(ret, "start") :
              /\ ret[k - 1].t = "node" /\ ret[k - 1].id = diagram.q_0
              /\ ret[k + 1].t = "startedge" /\ ret[k + 1].dst = diagram.q_0

(* The connector the claim expects for an edge.                            *)
ExpectedConnector(e) ==
    IF e[1] = e[2]
    THEN [t |-> "loop", src |-> e[1], label |-> IF e[3] = None THEN "" ELSE e[3]]
    ELSE [t |-> "straight", src |-> e[1], dst |-> e[2],
          label |-> IF e[3] = None THEN "" ELSE e[3]]

Connectors(text) == LinesOf(text, "loop") \cup LinesOf(text, "straight")

(* C8: every edge yields exactly one connector, the self-loop form iff     *)
(* src = dst and the straight form (label at the midpoint, empty text for  *)
(* no label) iff src # dst; so the self-loop connectors are as many as the *)
(* edges with src = dst and the straight ones as many as the others.       *)
C8_SelfLoopDetection ==
    Rendered =>
        /\ \A e \in diagram.edges :
              Cardinality({k \in Connectors(ret) : ret[k] = ExpectedConnector(e)})
                = Cardinality({f \in diagram.edges : ExpectedConnector(f) = ExpectedConnector(e)})
        /\ Cardinality(LinesOf(ret, "loop"))
             = Cardinality({e \in diagram.edges : e[1] = e[2]})
        /\ Cardinality(LinesOf(ret, "straight"))
             = Cardinality({e \in diagram.edges : e[1] # e[2]})

C8_Witness ==
    /\ Rendered
    /\ \E e \in diagram.edges : e[1] = e[2] /\ e[3] = None
    /\ \E e \in diagram.edges : e[1] # e[2]
    /\ LinesOf(ret, "loop") # {}
    /\ LinesOf(ret, "straight") # {}

(* The smallest FSM with n labels.                                         *)
PlainFSM(n) == FSM({}, Labels(n), 0, {})

(* The printed position of node i in a markup text.                        *)
NodePositions(text, i) ==
    {<<text[k].x, text[k].y>> : k \in {j \in LinesOf(text, "node") : text[j].id = i}}

(* C9: under FSMRect(C, S) node i is at ((i mod C) * S, -((i div C) * S)), *)
(* and an FSM with another number of nodes has the same position for every *)
(* index the two share.                                                    *)
C9_GridLayoutDeterminism ==
    (Rendered /\ call.shape.cls = "FSMRect") =>
        LET C == call.shape.cols
            S == call.shape.spacing
            n == Len(diagram.state_labels)
        IN  /\ C >= 1 /\ S >= 1
            /\ \A i \in 0 .. n - 1 :
                  LET col == CHOOSE c \in 0 .. C - 1 : \E r \in 0 .. i : r * C + c = i
                      row == CHOOSE r \in 0 .. i : r * C + col = i
                  IN  NodePositions(ret, i) =
                        { << [fmt |-> "d", neg |-> FALSE, mag |-> col * S],
                             [fmt |-> "d", neg |-> row > 0, mag |-> row * S] >> }
            /\ \A m \in 1 .. MaxLabels + 1 : \A i \in 0 .. n - 1 :
                  i < m =>
                     NodePositions(FSM_to_tex(PlainFSM(m), call.shape, <<>>), i)
                       = NodePositions(ret, i)

C9_Witness ==
    /\ Rendered
    /\ call.shape.cls = "FSMRect"
    /\ call.shape.cols = 1
    /\ call.shape.spacing = 3
    /\ Len(diagram.state_labels) = 2
    /\ \E k \in LinesOf(ret, "node") : ret[k].id = 1 /\ ret[k].y.neg /\ ret[k].y.mag = 3

----------------------------------------------------------------------------
(* Properties of the Digraph export (specification SpecDigraph).           *)

(* C5: to_dot emits one line per edge, with a label clause iff the edge    *)
(* has a label; an edge built without a label gives "src -> dst;".         *)
C5_DotLabelClause ==
    (call.op = "to_dot" /\ diagram.cls = "Digraph" /\ diagram.edges # {}) =>
        /\ Cardinality(LinesOf(ret, "edge")) = Cardinality(diagram.edges)
        /\ \A e \in diagram.edges :
              \E k \in LinesOf(ret, "edge") :
                  /\ ret[k].src = e[1]
                  /\ ret[k].dst = e[2]
                  /\ ret[k].attr = IF e[3] = None THEN <<>> ELSE <<e[3]>>

----------------------------------------------------------------------------
(* Properties of the file sinks (specification SpecSink).                  *)

(* C3: a write that fails leaves the files as they were: the target is     *)
(* neither created nor truncated.                                          *)
C3_FailedWriteLeavesNoFile ==
    [][(call'.op \in {">>", "output_tex"} /\ exc' # NoException) => fs' = fs]_vars

(* The producer an extension asks for (the extension without its case).    *)
RequiredProducer(path) ==
    IF endswith(lower(path), DotTex) THEN "to_tex"
    ELSE IF endswith(lower(path), DotDot) \/ endswith(lower(path), DotGv) THEN "to_dot"
    ELSE "none"

HasProducer(d, name) ==
    \/ name = "to_tex"
    \/ name = "to_dot" /\ d.cls = "Digraph"

(* C4: diagram >> path fails with NotImplementedError, and no other error, *)
(* when the extension is not .tex, .dot or .gv, and when the diagram lacks *)
(* the producer the extension asks for.                                    *)
C4_UnsupportedOutput ==
    (/\ call.op = ">>"
     /\ \/ RequiredProducer(call.path) = "none"
        \/ ~HasProducer(diagram, RequiredProducer(call.path)))
    => exc = "NotImplementedError"

(* C10: a successful diagram >> path creates or overwrites exactly the     *)
(* path passed, with the output of the producer the extension selects, and *)
(* writes no other path.                                                   *)
C10_WriteTargetsGivenPath ==
    [][(call'.op = ">>" /\ exc' = NoException) =>
         \E order \in Orders(diagram.edges) :
            fs' = [fs EXCEPT ![call'.path] =
                     [exists |-> TRUE,
                      data |-> IF RequiredProducer(call'.path) = "to_tex"
                               THEN to_tex(diagram, NoneShape, order)
                               ELSE to_dot(diagram, order)]]]_vars

====
